---------------------------- MODULE Spec2Model ----------------------------
(***************************************************************************)
(* Balanced-separator log-depth decomposition engine (LogKDecomp), its     *)
(* parallel separator search and its predicates.                           *)
(*                                                                         *)
(* An Edge is a record [name, verts]; a special edge is an Edges value     *)
(* holding one nameless edge (name 0).  Edges values are sets of Edge      *)
(* records; where the program depends on their order (GetSubset over the   *)
(* allowed edges) the order is the order of the names.                     *)
(***************************************************************************)
EXTENDS Naturals, Integers, Sequences, FiniteSets, TLC

(* ------------------------------ bounds --------------------------------- *)
NumVerts == 4
MaxEdges == 2
MaxPath == 7
MaxK == 2
NumProc == 2
SearchN == 3
SearchK == 1
MaxCalls == 3
MaxText == 2
MaxArity == 2
MaxSat == 2
PredVerts == 4
TreeSize == 4

(* ------------------------- sets of integers ---------------------------- *)
Subset(a, b) == a \subseteq b

Inter(a, b) == a \cap b

Diff(a, b) == a \ b

Min(S) == CHOOSE x \in S : \A y \in S : x <= y

(* ------------------------------ Edges ---------------------------------- *)
NoEdges == {}

Vertices(edges) == UNION {e.verts : e \in edges}

NamedEdge(n, vs) == [name |-> n, verts |-> vs]

SpecialOf(vs) == {[name |-> 0, verts |-> vs]}

RECURSIVE EdgeSeq(_)
EdgeSeq(edges) ==
    IF edges = {} THEN <<>>
    ELSE LET m == Min({e.name : e \in edges})
             e == CHOOSE x \in edges : x.name = m
         IN <<e>> \o EdgeSeq(edges \ {e})

FilterVertices(edges, vertices) == {e \in edges : Inter(e.verts, vertices) # {}}

GetSubset(edges, idx) == {EdgeSeq(edges)[i] : i \in idx}

(* ------------------------------ Graph ---------------------------------- *)
EmptyGraph == [Edges |-> NoEdges, Special |-> {}]

GraphVertices(H) == Vertices(H.Edges) \cup UNION {Vertices(sp) : sp \in H.Special}

GraphLen(H) == Cardinality(H.Edges) + Cardinality(H.Special)

\* the edges and special edges of H that keep a vertex outside sep, each with
\* the vertices it keeps
Residuals(H, sep) ==
    LET sv == Vertices(sep)
    IN {[kind |-> "e", it |-> e, res |-> e.verts \ sv] : e \in {x \in H.Edges : x.verts \ sv # {}}}
       \cup
       {[kind |-> "s", it |-> sp, res |-> Vertices(sp) \ sv] :
            sp \in {x \in H.Special : Vertices(x) \ sv # {}}}

RECURSIVE Grow(_, _)
Grow(S, items) ==
    LET T == S \cup {j \in items : \E i \in S : i.res \cap j.res # {}}
    IN IF T = S THEN S ELSE Grow(T, items)

CompGraph(cls) ==
    [Edges |-> {i.it : i \in {x \in cls : x.kind = "e"}},
     Special |-> {i.it : i \in {x \in cls : x.kind = "s"}}]

\* components holding an edge come first, by their smallest edge name; the
\* components made of special edges only follow, by their smallest vertex
CompKey(H) ==
    IF H.Edges # {} THEN Min({e.name : e \in H.Edges})
    ELSE 1000 + Min(GraphVertices(H))

RECURSIVE OrderComps(_)
OrderComps(S) ==
    IF S = {} THEN <<>>
    ELSE LET c == CHOOSE x \in S : \A y \in S : CompKey(x) <= CompKey(y)
         IN <<c>> \o OrderComps(S \ {c})

\* the classes of items linked by shared vertices
RECURSIVE Classes(_)
Classes(items) ==
    IF items = {} THEN {}
    ELSE LET c == Grow({CHOOSE i \in items : TRUE}, items)
         IN {c} \cup Classes(items \ c)

Components(H, sep) == OrderComps({CompGraph(c) : c \in Classes(Residuals(H, sep))})

IsolatedEdges(H, sep) == {e \in H.Edges : e.verts \ Vertices(sep) = {}}

GetComponents(H, sep) == [comps |-> Components(H, sep), isolated |-> IsolatedEdges(H, sep)]


(* ---------------------------- predicates ------------------------------- *)
\* the limit one too large
LimitPlusOne(H, balFactor) == (GraphLen(H) * (balFactor - 1)) \div balFactor + 1

BalancednessLimit(H, balFactor) == (GraphLen(H) * (balFactor - 1)) \div balFactor

\* index of the last component larger than the limit, 0 when there is none
LowIndex(comps, limit) ==
    LET big == {i \in 1..Len(comps) : GraphLen(comps[i]) > limit}
    IN IF big = {} THEN 0 ELSE CHOOSE i \in big : \A j \in big : j <= i

IntHash(vs) == vs

\* the balancedness test without the test on the special edges
BalancedSizesOnly(H, sep, balFactor) ==
    LET comps == GetComponents(H, sep).comps
    IN \A i \in 1..Len(comps) : ~(GraphLen(comps[i]) > BalancednessLimit(H, balFactor))

BalancedCheck(H, sep, balFactor) ==
    LET comps == GetComponents(H, sep).comps
        limit == BalancednessLimit(H, balFactor)
    IN /\ \A i \in 1..Len(comps) : ~(GraphLen(comps[i]) > limit)
       /\ \A sp \in H.Special : ~(IntHash(Vertices(sp)) = IntHash(Vertices(sep)))

\* the parent check without its two tests on the low component's vertices
ParentCheckLowOnly(p, H, sep, balFactor) ==
    LowIndex(GetComponents(H, sep).comps, BalancednessLimit(H, balFactor)) # 0

ParentCheck(p, H, sep, balFactor) ==
    LET comps == GetComponents(H, sep).comps
        limit == BalancednessLimit(H, balFactor)
        low == LowIndex(comps, limit)
    IN IF low = 0 THEN FALSE
       ELSE LET vertCompLow == GraphVertices(comps[low])
                childX == Inter(p.Child, vertCompLow)
            IN /\ Subset(Inter(vertCompLow, p.Conn), Vertices(sep))
               /\ Subset(Inter(vertCompLow, Vertices(sep)), childX)

(* ----------------------- combination iterator -------------------------- *)
\* the k-subsets of lo..n as ascending index tuples, in lexicographic order
RECURSIVE Combin(_, _, _)
Combin(lo, n, k) ==
    IF k = 0 THEN << <<>> >>
    ELSE IF n - lo + 1 < k THEN <<>>
    ELSE LET rest == Combin(lo + 1, n, k - 1)
         IN [i \in 1..Len(rest) |-> <<lo>> \o rest[i]] \o Combin(lo + 1, n, k)

\* every split-th combination, starting at the shard's own offset
ShardOf(all, s, split) ==
    LET cnt == IF Len(all) < s THEN 0 ELSE ((Len(all) - s) \div split) + 1
    IN [i \in 1..cnt |-> all[s + (i - 1) * split]]

SplitCombin(n, k, split) == [s \in 1..split |-> ShardOf(Combin(1, n, k), s, split)]

TupleSet(t) == {t[i] : i \in 1..Len(t)}

(* ------------------------------- Node ---------------------------------- *)
ZeroNode == [Bag |-> {}, Cover |-> NoEdges, Children |-> <<>>]

MkNode(bag, cover, children) == [Bag |-> bag, Cover |-> cover, Children |-> children]

ZeroDecomp == [Graph |-> EmptyGraph, Root |-> ZeroNode]

MkDecomp(H, root) == [Graph |-> H, Root |-> root]

IsFailure(d) == d = ZeroDecomp

RECURSIVE MarkerLeaves(_, _)
MarkerLeaves(n, marker) ==
    LET below == [i \in 1..Len(n.Children) |-> MarkerLeaves(n.Children[i], marker)]
        RECURSIVE Sum(_)
        Sum(i) == IF i = 0 THEN 0 ELSE below[i] + Sum(i - 1)
    IN (IF Len(n.Children) = 0 /\ n.Cover = marker THEN 1 ELSE 0) + Sum(Len(n.Children))

RECURSIVE ReplaceMarker(_, _, _)
ReplaceMarker(n, subtree, marker) ==
    IF Len(n.Children) = 0 /\ n.Cover = marker THEN subtree
    ELSE [n EXCEPT !.Children =
             [i \in 1..Len(n.Children) |-> ReplaceMarker(n.Children[i], subtree, marker)]]

\* the leaf pointer returned by CombineNodes: found is FALSE for nil
CombineNodes(above, subtree, connecting) ==
    IF MarkerLeaves(above, connecting) = 1
    THEN [found |-> TRUE, node |-> ReplaceMarker(above, subtree, connecting)]
    ELSE [found |-> FALSE, node |-> ZeroNode]

attachingSubtrees(subtreeAbove, subtreeBelow, connecting) ==
    LET leaf == CombineNodes(subtreeAbove, subtreeBelow, connecting)
    IN IF ~leaf.found THEN [panic |-> TRUE, node |-> ZeroNode]
       ELSE [panic |-> FALSE, node |-> leaf.node]

\* n.contains(o): every node contains itself and what its children contain
RECURSIVE contains(_, _)
contains(n, o) ==
    \/ n = o
    \/ \E i \in 1..Len(n.Children) : contains(n.Children[i], o)

\* n.parent(o), here parentOf: the loop over the children from child i on; o
\* itself when no child is o or contains o
RECURSIVE parentFrom(_, _, _)
parentFrom(n, o, i) ==
    IF i > Len(n.Children) THEN o
    ELSE IF n.Children[i] = o THEN n
    ELSE IF contains(n.Children[i], o) THEN parentFrom(n.Children[i], o, 1)
    ELSE parentFrom(n, o, i + 1)

parentOf(n, o) == parentFrom(n, o, 1)

\* n.Reroot(child); panic is TRUE where log.Panicf ends the call
RECURSIVE Reroot(_, _)
Reroot(n, child) ==
    IF ~contains(n, child) THEN [panic |-> TRUE, node |-> ZeroNode]
    ELSE IF n = child THEN [panic |-> FALSE, node |-> child]
    ELSE LET p == Reroot(n, parentOf(n, child)).node
             keep(c) == c # child
             newparentchildren == SelectSeq(p.Children, keep)
             newchildren == Append(child.Children, [p EXCEPT !.Children = newparentchildren])
         IN [panic |-> FALSE, node |-> MkNode(child.Bag, child.Cover, newchildren)]

\* n.Vertices(): the vertices of the bags of n and of all nodes below it
RECURSIVE NodeVertices(_)
NodeVertices(n) ==
    n.Bag \cup UNION {NodeVertices(n.Children[i]) : i \in 1..Len(n.Children)}

specialCondition(n) ==
    LET hiddenVertices == Diff(Vertices(n.Cover), n.Bag)
        verticesRooted == NodeVertices(n)
    IN \A v \in hiddenVertices : ~(v \in verticesRooted)

noSCViolation(n) ==
    /\ specialCondition(n)
    /\ \A i \in 1..Len(n.Children) : specialCondition(n.Children[i])

\* subtree hung below the first leaf of n
RECURSIVE FirstLeafAttach(_, _)
FirstLeafAttach(n, subtree) ==
    IF Len(n.Children) = 0 THEN [n EXCEPT !.Children = <<subtree>>]
    ELSE [n EXCEPT !.Children[1] = FirstLeafAttach(n.Children[1], subtree)]

\* n.CheckLeaves(vertices, subtree) from child i on: ok is the boolean
\* returned, result the node behind the pointer returned, n the receiver
\* after the call
RECURSIVE CheckLeavesFrom(_, _, _, _)
CheckLeavesFrom(n, vertices, subtree, i) ==
    IF Len(n.Children) = 0 /\ Subset(vertices, n.Bag)
    THEN LET n1 == [n EXCEPT !.Children = <<subtree>>]
         IN [ok |-> TRUE, result |-> n1, n |-> n1]
    ELSE IF i > Len(n.Children) THEN [ok |-> FALSE, result |-> ZeroNode, n |-> n]
    ELSE LET r == CheckLeavesFrom(n.Children[i], vertices, subtree, 1)
         IN IF r.ok
            THEN LET n1 == [n EXCEPT !.Children[i] = r.result]
                 IN [ok |-> TRUE, result |-> n1, n |-> n1]
            ELSE CheckLeavesFrom(n, vertices, subtree, i + 1)

\* the subtree hung below the first leaf, whatever its bag
CheckLeavesAnyBag(n, vertices, subtree) ==
    LET n1 == FirstLeafAttach(n, subtree)
    IN [ok |-> TRUE, result |-> n1, n |-> n1]

CheckLeaves(n, vertices, subtree) == CheckLeavesFrom(n, vertices, subtree, 1)

(* --------------------------- negative cache ---------------------------- *)
\* order-independent fingerprint: how many edges hold each vertex
EdgesHash(edges) ==
    {<<v, Cardinality({e \in edges : v \in e.verts})>> : v \in Vertices(edges)}

\* a Cache: the recorded pairs, whether a lookup has hit since Init, and whether
\* the cache is in use at all (a disabled cache records nothing and never hits)
NewCache(on) == [on |-> on, neg |-> {}, hit |-> FALSE]

CheckNegative(c, sep, comps) ==
    /\ c.on
    /\ \E i \in 1..Len(comps) : <<EdgesHash(sep), EdgesHash(comps[i].Edges)>> \in c.neg

AddNegative(c, sep, comp) ==
    IF c.on THEN [c EXCEPT !.neg = @ \cup {<<EdgesHash(sep), EdgesHash(comp.Edges)>>}]
    ELSE c

\* l.cache.AddNegative(childλ, comps_c[y]) after the recursion on comps_c[y] failed
RejectChild(c, fr, y) == AddNegative(c, fr.childL, fr.comps[y])

\* every separator that leaves a component is skipped
SkipsAnyChild(c, sep, comps) == c.on /\ Len(comps) > 0

\* if l.cache.CheckNegative(childλ, comps_c) { continue }
SkipsChild(c, sep, comps) == CheckNegative(c, sep, comps)

\* the cache after a lookup
Looked(c, sep, comps) == IF SkipsChild(c, sep, comps) THEN [c EXCEPT !.hit = TRUE] ELSE c

(* ----------------------------- base cases ------------------------------ *)
\* the first test off by one
baseCaseCheckOffByOne(lenE, lenSp, lenAE, K) ==
    IF lenE <= K + 1 /\ lenSp = 0 THEN TRUE
    ELSE IF lenE = 0 /\ lenSp = 1 THEN TRUE
    ELSE IF lenE = 0 /\ lenSp > 1 THEN TRUE
    ELSE IF lenAE = 0 /\ (lenE + lenSp) >= 0 THEN TRUE
    ELSE FALSE

baseCaseCheck(lenE, lenSp, lenAE, K) ==
    IF lenE <= K /\ lenSp = 0 THEN TRUE
    ELSE IF lenE = 0 /\ lenSp = 1 THEN TRUE
    ELSE IF lenE = 0 /\ lenSp > 1 THEN TRUE
    ELSE IF lenAE = 0 /\ (lenE + lenSp) >= 0 THEN TRUE
    ELSE FALSE

\* the single node of the edges without its Bag
baseCaseNoBag(H, lenAE, K) ==
    IF Cardinality(H.Edges) = 0 /\ Cardinality(H.Special) > 1 THEN ZeroDecomp
    ELSE IF lenAE = 0 /\ GraphLen(H) >= 0 THEN ZeroDecomp
    ELSE LET output == IF Cardinality(H.Edges) <= K /\ Cardinality(H.Special) = 0
                       THEN MkDecomp(H, MkNode({}, H.Edges, <<>>))
                       ELSE ZeroDecomp
         IN IF Cardinality(H.Edges) = 0 /\ Cardinality(H.Special) = 1
            THEN LET sp1 == CHOOSE sp \in H.Special : TRUE
                 IN MkDecomp(H, MkNode(Vertices(sp1), sp1, <<>>))
            ELSE output

\* the failure cases come first; output starts as the zero Decomp
baseCase(H, lenAE, K) ==
    IF Cardinality(H.Edges) = 0 /\ Cardinality(H.Special) > 1 THEN ZeroDecomp
    ELSE IF lenAE = 0 /\ GraphLen(H) >= 0 THEN ZeroDecomp
    ELSE LET output == IF Cardinality(H.Edges) <= K /\ Cardinality(H.Special) = 0
                       THEN MkDecomp(H, MkNode(GraphVertices(H), H.Edges, <<>>))
                       ELSE ZeroDecomp
         IN IF Cardinality(H.Edges) = 0 /\ Cardinality(H.Special) = 1
            THEN LET sp1 == CHOOSE sp \in H.Special : TRUE
                 IN MkDecomp(H, MkNode(Vertices(sp1), sp1, <<>>))
            ELSE output

(* --------------------------- input graphs ------------------------------ *)
PathGraph(n) == [Edges |-> {NamedEdge(i, {i, i + 1}) : i \in 1..n}, Special |-> {}]

Triangle ==
    [Edges |-> {NamedEdge(1, {1, 2}), NamedEdge(2, {2, 3}), NamedEdge(3, {1, 3})},
     Special |-> {}]

RECURSIVE Pow2(_)
Pow2(n) == IF n = 0 THEN 1 ELSE 2 * Pow2(n - 1)

RECURSIVE MaskOf(_)
MaskOf(vs) == IF vs = {} THEN 0 ELSE LET v == Min(vs) IN Pow2(v - 1) + MaskOf(vs \ {v})

EdgePool ==
    {NamedEdge(MaskOf(vs), vs) : vs \in {x \in SUBSET (1..NumVerts) : Cardinality(x) \in {2, 3}}}

SmallGraphs ==
    {[Edges |-> es, Special |-> {}] : es \in {x \in SUBSET EdgePool : Cardinality(x) <= MaxEdges}}

\* a graph whose decomposition needs a parent separator with two components:
\* edge 1 splits it into five pendant edges and the graph of edges 2..6, in
\* which edge 4 is the balanced child and edge 3 its parent
TwoArmGraph ==
    [Edges |-> {NamedEdge(1, {2, 8}), NamedEdge(2, {1, 2, 9}), NamedEdge(3, {2, 4, 9}),
                NamedEdge(4, {4, 5}), NamedEdge(5, {5, 6}), NamedEdge(6, {5, 7}),
                NamedEdge(7, {8, 10}), NamedEdge(8, {8, 11}), NamedEdge(9, {8, 12}),
                NamedEdge(10, {8, 13})},
     Special |-> {}]

\* TwoArmGraph with the triangle 4-5-7 in its lower arm
TwoArmCycle ==
    [Edges |-> TwoArmGraph.Edges \cup {NamedEdge(11, {4, 7})}, Special |-> {}]

InputGraphs ==
    SmallGraphs \cup {PathGraph(n) : n \in 0..MaxPath}
        \cup {Triangle, TwoArmGraph, TwoArmCycle}

(* ------------------------------ engine --------------------------------- *)
VARIABLES
    l,        \* the LogKDecomp value: Graph, K, BalFactor
    cache,    \* l.cache, the negative cache
    frames,   \* the findDecomp activations started so far, finished ones included
    top,      \* the activation of the running FindDecomp call
    status,   \* "run", or "panic" once log.Panicln ended the program
    outcome   \* what FindDecomp returned for each width tried: "none", "ok", "fail"

engineVars == <<l, cache, frames, top, status, outcome>>

VARIABLES
    variant,          \* "ParallelSearch" (FindNext of the Search interface) or "Search" (lib)
    sat,              \* the candidates on which the predicate holds
    panics,           \* the candidates on which the predicate panics
    Generators,       \* s.Generators: per shard, the position and the cache bit
    Result,           \* s.Result
    ExhaustedSearch,  \* s.ExhaustedSearch
    mpc,              \* where the goroutine calling FindNext stands
    wpc,              \* per call, where each of its workers stands
    wj,               \* per call, each worker's candidate j
    finished,         \* per call, the flag shared by its workers
    found,            \* per call, the channel found: "open" or "closed"
    wg,               \* per call, the WaitGroup counter
    joiner,           \* per call, where the goroutine that waits on wg stands
    delivered,        \* a worker's send was received in the latest call
    returned,         \* per candidate, the number of calls that returned it
    lost              \* candidates whose send hit the closed channel and that no call
                      \* has returned since; <<>> once such a candidate was returned

searchVars == <<variant, sat, panics, Generators, Result, ExhaustedSearch, mpc, wpc, wj, finished,
                found, wg, joiner, delivered, returned, lost>>

VARIABLES
    text,     \* the input of GetGraph: the items of the text, well formed or not
    pgraph,   \* pgraph.Edges, what ParseString stored
    perr,     \* the error ParseString returned: TRUE for a parse error
    output,   \* the Graph GetGraph returns
    gpc       \* where main stands: "read", "parsed", "returned", "decomp"

parseVars == <<text, pgraph, perr, output, gpc>>

VARIABLES
    pcall,    \* the Check call under way: the predicate, H, sep and balFactor
    pret      \* what Check returned, <<>> before the return

predVars == <<pcall, pret>>

VARIABLES
    tcall,    \* the Node method call under way: the method, its receiver and arguments
    tret      \* what the call returned and left in its receiver, <<>> before the return

treeVars == <<tcall, tret>>

\* one findDecomp activation (kind "top", "seq", "child", "up") or the goroutine
\* that only delivers the two-node upper tree (kind "upnow")
Frame(H, Conn, allowedFull, parent, kind, fork, idx, depth) ==
    [H |-> H, Conn |-> Conn, allowedFull |-> allowedFull,
     parent |-> parent, kind |-> kind, fork |-> fork, idx |-> idx, depth |-> depth,
     pc |-> "start",
     genChild |-> [s \in 1..NumProc |-> 1], genParent |-> [s \in 1..NumProc |-> 1],
     childL |-> NoEdges, parentL |-> NoEdges, childX |-> {}, comps |-> <<>>, y |-> 0,
     subtrees |-> <<>>,
     forks |-> 0, upTask |-> FALSE, hasTemp |-> FALSE, specialChild |-> NoEdges,
     nrecv |-> 0, decompUp |-> ZeroDecomp, ret |-> ZeroDecomp]

\* the allowed edges taken as they were passed, without the filter
AllowedAll(fr) == fr.allowedFull

\* allowed := FilterVertices(allowedFull, VerticesH)
Allowed(fr) == FilterVertices(fr.allowedFull, GraphVertices(fr.H))

AllowedParent(fr) == FilterVertices(Allowed(fr), fr.Conn \cup Vertices(fr.childL))

\* the shards whose generator still holds a candidate passing the check, and the
\* position of the first such candidate in a shard
Hits(shards, gen, pass) ==
    {s \in 1..NumProc : \E i \in gen[s]..Len(shards[s]) : shards[s][i] \in pass}

FirstHit(shards, gen, s, pass) ==
    Min({i \in gen[s]..Len(shards[s]) : shards[s][i] \in pass})

\* the candidates of all shards
Candidates(shards) == UNION {TupleSet(shards[s]) : s \in 1..NumProc}

Returned(fr, d) == [fr EXCEPT !.pc = "ret", !.ret = d]

\* the whole of childχ handed to a component as its Conn
ConnWhole(comp, childX) == childX

\* Conn_x := Inter(comps_c[x].Vertices(), childχ)
Conn_x(comp, childX) == Inter(GraphVertices(comp), childX)

FindDecompInit ==
    /\ l \in [Graph : InputGraphs, K : 1..MaxK, BalFactor : {2}]
    /\ cache = NewCache(TRUE)
    /\ frames = <<Frame(l.Graph, {}, l.Graph.Edges, 0, "top", 0, 0, 0)>>
    /\ top = 1
    /\ status = "run"
    /\ outcome = [k \in 1..MaxK |-> "none"]

\* findDecomp up to the first FindNext: the Conn check and the base cases
Start(f) ==
    LET fr == frames[f]
    IN /\ status = "run"
       /\ fr.pc = "start"
       /\ IF ~Subset(fr.Conn, GraphVertices(fr.H))
          THEN /\ status' = "panic"
               /\ UNCHANGED frames
          ELSE /\ UNCHANGED status
               /\ frames' = [frames EXCEPT ![f] =
                     IF baseCaseCheck(Cardinality(fr.H.Edges), Cardinality(fr.H.Special),
                                      Cardinality(fr.allowedFull), l.K)
                     THEN Returned(fr, baseCase(fr.H, Cardinality(fr.allowedFull), l.K))
                     ELSE [fr EXCEPT !.pc = "child"]]
       /\ UNCHANGED <<l, cache, top, outcome>>
       /\ UNCHANGED searchVars
       /\ UNCHANGED parseVars
       /\ UNCHANGED <<predVars, treeVars>>

\* one round of the CHILD loop: FindNext(BalancedCheck), then either the root
\* case up to its first recursive call, or the set-up of the parent search
ChildNext(f) ==
    LET fr == frames[f]
        H == fr.H
        VerticesH == GraphVertices(H)
        allowed == Allowed(fr)
        shards == SplitCombin(Cardinality(allowed), l.K, NumProc)
        pass == {j \in Candidates(shards) :
                    BalancedCheck(H, GetSubset(allowed, TupleSet(j)), l.BalFactor)}
        hits == Hits(shards, fr.genChild, pass)
    IN /\ status = "run"
       /\ fr.pc = "child"
       /\ IF hits = {}
          THEN /\ frames' = [frames EXCEPT ![f] = Returned(fr, ZeroDecomp)]
               /\ UNCHANGED cache
          ELSE \E s \in hits :
                 LET i == FirstHit(shards, fr.genChild, s, pass)
                     childL == GetSubset(allowed, TupleSet(shards[s][i]))
                     comps_c == GetComponents(H, childL).comps
                     childX == Inter(Vertices(childL), VerticesH)
                     fr1 == [fr EXCEPT !.genChild[s] = i + 1, !.childL = childL,
                                       !.comps = comps_c, !.childX = childX,
                                       !.subtrees = <<>>]
                 IN IF Subset(fr.Conn, Vertices(childL))
                    THEN /\ cache' = Looked(cache, childL, comps_c)
                         /\ IF SkipsChild(cache, childL, comps_c)
                            THEN frames' = [frames EXCEPT ![f] = fr1]
                            ELSE IF Len(comps_c) = 0
                            THEN frames' = [frames EXCEPT ![f] =
                                     Returned(fr1, MkDecomp(H, MkNode(childX, childL, <<>>)))]
                            ELSE frames' =
                                     [frames EXCEPT ![f] = [fr1 EXCEPT !.pc = "rootwait", !.y = 1]]
                                     \o <<Frame(comps_c[1], Conn_x(comps_c[1], childX),
                                                fr.allowedFull, f, "seq", 0, 1, fr.depth + 1)>>
                    ELSE /\ frames' = [frames EXCEPT ![f] =
                                [fr1 EXCEPT !.pc = "parent",
                                            !.genParent = [t \in 1..NumProc |-> 1]]]
                         /\ UNCHANGED cache
       /\ UNCHANGED <<l, top, status, outcome>>
       /\ UNCHANGED searchVars
       /\ UNCHANGED parseVars
       /\ UNCHANGED <<predVars, treeVars>>

\* the root case after a recursive call returned: reject the child, call the
\* next component, or return the node
RootReturn(f) ==
    LET fr == frames[f]
    IN /\ status = "run"
       /\ fr.pc = "rootwait"
       /\ \E c \in 1..Len(frames) :
            /\ frames[c].parent = f
            /\ frames[c].kind = "seq"
            /\ frames[c].pc = "ret"
            /\ LET decomp == frames[c].ret
                   subtrees == Append(fr.subtrees, decomp.Root)
                   taken == [frames EXCEPT ![c].pc = "done"]
               IN IF IsFailure(decomp)
                  THEN /\ cache' = RejectChild(cache, fr, fr.y)
                       /\ frames' = [taken EXCEPT ![f].pc = "child"]
                  ELSE /\ UNCHANGED cache
                       /\ IF fr.y = Len(fr.comps)
                          THEN frames' = [taken EXCEPT ![f] =
                                   Returned(fr, MkDecomp(fr.H,
                                                MkNode(fr.childX, fr.childL, subtrees)))]
                          ELSE frames' =
                                   [taken EXCEPT ![f].y = fr.y + 1, ![f].subtrees = subtrees]
                                   \o <<Frame(fr.comps[fr.y + 1],
                                              Conn_x(fr.comps[fr.y + 1], fr.childX),
                                              fr.allowedFull, f, "seq", 0, fr.y + 1,
                                              fr.depth + 1)>>
       /\ UNCHANGED <<l, top, status, outcome>>
       /\ UNCHANGED searchVars
       /\ UNCHANGED parseVars
       /\ UNCHANGED <<predVars, treeVars>>

\* the tasks of a PARENT round without the upper task
ChildTasksOnly(fr, f, fork, parentL, comps_p, low, isolated, comps_c, childX) ==
    [x \in 1..Len(comps_c) |->
        Frame(comps_c[x], Inter(GraphVertices(comps_c[x]), childX),
              fr.allowedFull, f, "child", fork, x, fr.depth + 1)]

\* the tasks a PARENT round starts: one per component of the child, and the
\* upper task (the two-node tree sent as it is, or the recursion into compUp)
ForkedTasks(fr, f, fork, parentL, comps_p, low, isolated, comps_c, childX) ==
    LET VerticesH == GraphVertices(fr.H)
        others == {i \in 1..Len(comps_p) : i # low}
        tempEdgeSlice == isolated \cup UNION {comps_p[i].Edges : i \in others}
        tempSpecialSlice == UNION {comps_p[i].Special : i \in others}
        specialChild == SpecialOf(childX)
        decompTemp ==
            MkDecomp([Edges |-> parentL, Special |-> {specialChild}],
                     MkNode(Inter(Vertices(parentL), VerticesH), parentL,
                            <<MkNode(Vertices(specialChild), fr.childL, <<>>)>>))
        compUp == [Edges |-> tempEdgeSlice, Special |-> tempSpecialSlice \cup {specialChild}]
        allowedReduced == Diff(fr.allowedFull, comps_p[low].Edges)
        up == IF Len(comps_p) = 1
              THEN <<Returned(Frame(EmptyGraph, {}, NoEdges, f, "upnow", fork, 0, fr.depth),
                              decompTemp)>>
              ELSE IF tempEdgeSlice # {}
              THEN <<Frame(compUp, fr.Conn, allowedReduced, f, "up", fork, 0, fr.depth + 1)>>
              ELSE <<>>
    IN up \o [x \in 1..Len(comps_c) |->
                 Frame(comps_c[x], Conn_x(comps_c[x], childX),
                       fr.allowedFull, f, "child", fork, x, fr.depth + 1)]

\* one round of the PARENT loop up to the start of the goroutines
ParentNext(f) ==
    LET fr == frames[f]
        H == fr.H
        allowedParent == AllowedParent(fr)
        shards == SplitCombin(Cardinality(allowedParent), l.K, NumProc)
        predPar == [Conn |-> fr.Conn, Child |-> Vertices(fr.childL)]
        pass == {j \in Candidates(shards) :
                    ParentCheck(predPar, H, GetSubset(allowedParent, TupleSet(j)), l.BalFactor)}
        hits == Hits(shards, fr.genParent, pass)
    IN /\ status = "run"
       /\ fr.pc = "parent"
       /\ IF hits = {}
          THEN /\ frames' = [frames EXCEPT ![f].pc = "child"]
               /\ UNCHANGED <<status, cache>>
          ELSE \E s \in hits :
                 LET i == FirstHit(shards, fr.genParent, s, pass)
                     parentL == GetSubset(allowedParent, TupleSet(shards[s][i]))
                     gc == GetComponents(H, parentL)
                     comps_p == gc.comps
                     low == LowIndex(comps_p, BalancednessLimit(H, l.BalFactor))
                     compLow == comps_p[low]
                     childX == Inter(Vertices(fr.childL), GraphVertices(compLow))
                     comps_c == GetComponents(compLow, fr.childL).comps
                     others == {x \in 1..Len(comps_p) : x # low}
                     tasks == ForkedTasks(fr, f, fr.forks + 1, parentL, comps_p, low,
                                          gc.isolated, comps_c, childX)
                     fr1 == [fr EXCEPT !.genParent[s] = i + 1, !.parentL = parentL]
                 IN IF low = 0
                    THEN /\ status' = "panic"
                         /\ UNCHANGED <<frames, cache>>
                    ELSE /\ UNCHANGED status
                         /\ cache' = Looked(cache, fr.childL, comps_c)
                         /\ IF SkipsChild(cache, fr.childL, comps_c)
                            THEN frames' = [frames EXCEPT ![f] = fr1]
                            ELSE frames' =
                                   [frames EXCEPT ![f] =
                                       [fr1 EXCEPT !.pc = "join", !.forks = fr.forks + 1,
                                            !.comps = comps_c, !.childX = childX,
                                            !.subtrees = <<>>, !.nrecv = 0,
                                            !.decompUp = ZeroDecomp,
                                            !.specialChild = SpecialOf(childX),
                                            !.upTask = (Len(tasks) > Len(comps_c)),
                                            !.hasTemp =
                                               (gc.isolated \cup
                                                UNION {comps_p[x].Edges : x \in others}) # {}]]
                                   \o tasks
       /\ UNCHANGED <<l, top, outcome>>
       /\ UNCHANGED searchVars
       /\ UNCHANGED parseVars
       /\ UNCHANGED <<predVars, treeVars>>

\* one pass of the join loop: a result is received from ch or from chUp
Join(f) ==
    LET fr == frames[f]
    IN /\ status = "run"
       /\ fr.pc = "join"
       /\ fr.nrecv < Len(fr.comps) + 1
       /\ \E c \in 1..Len(frames) :
            /\ frames[c].parent = f
            /\ frames[c].fork = fr.forks
            /\ frames[c].kind \in {"child", "up", "upnow"}
            /\ frames[c].pc = "ret"
            /\ LET d == frames[c].ret
                   taken == [frames EXCEPT ![c].pc = "done"]
               IN IF frames[c].kind = "child"
                  THEN /\ UNCHANGED status
                       /\ IF IsFailure(d)
                          THEN /\ cache' = RejectChild(cache, fr, frames[c].idx)
                               /\ frames' = [taken EXCEPT ![f].pc = "parent"]
                          ELSE /\ UNCHANGED cache
                               /\ frames' = [taken EXCEPT
                                               ![f].subtrees = Append(fr.subtrees, d.Root),
                                               ![f].nrecv = fr.nrecv + 1]
                  ELSE /\ UNCHANGED cache
                       /\ IF IsFailure(d)
                          THEN /\ frames' = [taken EXCEPT ![f].pc = "parent"]
                               /\ UNCHANGED status
                          ELSE IF ~Subset(fr.Conn, d.Root.Bag)
                          THEN /\ status' = "panic"
                               /\ UNCHANGED frames
                          ELSE /\ frames' = [taken EXCEPT ![f].decompUp = d,
                                                          ![f].nrecv = fr.nrecv + 1]
                               /\ UNCHANGED status
       /\ UNCHANGED <<l, top, outcome>>
       /\ UNCHANGED searchVars
       /\ UNCHANGED parseVars
       /\ UNCHANGED <<predVars, treeVars>>

\* post-processing after the join loop: the child root is attached below the
\* upper decomposition
Stitch(f) ==
    LET fr == frames[f]
        rootChild == MkNode(fr.childX, fr.childL, fr.subtrees)
        att == attachingSubtrees(fr.decompUp.Root, rootChild, fr.specialChild)
    IN /\ status = "run"
       /\ fr.pc = "join"
       /\ fr.nrecv = Len(fr.comps) + 1
       /\ IF fr.hasTemp
          THEN IF att.panic
               THEN /\ status' = "panic"
                    /\ UNCHANGED frames
               ELSE /\ frames' = [frames EXCEPT ![f] = Returned(fr, MkDecomp(fr.H, att.node))]
                    /\ UNCHANGED status
          ELSE /\ frames' = [frames EXCEPT ![f] = Returned(fr, MkDecomp(fr.H, rootChild))]
               /\ UNCHANGED status
       /\ UNCHANGED <<l, cache, top, outcome>>
       /\ UNCHANGED searchVars
       /\ UNCHANGED parseVars
       /\ UNCHANGED <<predVars, treeVars>>

\* FindDecomp has returned; SetWidth and the next FindDecomp on the same value
SetWidth ==
    /\ status = "run"
    /\ frames[top].pc = "ret"
    /\ l.K < MaxK
    /\ outcome' = [outcome EXCEPT ![l.K] = IF IsFailure(frames[top].ret) THEN "fail" ELSE "ok"]
    /\ l' = [l EXCEPT !.K = l.K + 1]
    /\ cache' = NewCache(cache.on)
    /\ frames' = <<Frame(l.Graph, {}, l.Graph.Edges, 0, "top", 0, 0, 0)>>
    /\ top' = 1
    /\ UNCHANGED status
    /\ UNCHANGED searchVars
    /\ UNCHANGED parseVars
    /\ UNCHANGED <<predVars, treeVars>>

\* FindDecomp has returned with the cache in use; the same call is made again on
\* a LogKDecomp whose cache is disabled, the first result kept in outcome
FindDecompUncached ==
    /\ status = "run"
    /\ frames[top].pc = "ret"
    /\ cache.on
    /\ outcome' = [outcome EXCEPT ![l.K] = IF IsFailure(frames[top].ret) THEN "fail" ELSE "ok"]
    /\ cache' = [cache EXCEPT !.on = FALSE]
    /\ frames' = <<Frame(l.Graph, {}, l.Graph.Edges, 0, "top", 0, 0, 0)>>
    /\ top' = 1
    /\ UNCHANGED <<l, status>>
    /\ UNCHANGED searchVars
    /\ UNCHANGED parseVars
    /\ UNCHANGED <<predVars, treeVars>>

EngineNext ==
    \/ \E f \in 1..Len(frames) : Start(f)
    \/ \E f \in 1..Len(frames) : ChildNext(f)
    \/ \E f \in 1..Len(frames) : RootReturn(f)
    \/ \E f \in 1..Len(frames) : ParentNext(f)
    \/ \E f \in 1..Len(frames) : Join(f)
    \/ \E f \in 1..Len(frames) : Stitch(f)
    \/ SetWidth

(* ------------------------- ParallelSearch ------------------------------ *)
SearchShards == SplitCombin(SearchN, SearchK, NumProc)

\* the Generator interface; in lib the worker reads gen.Combination and gen.BalSep
HasNext(g, s) == g[s].pos <= Len(SearchShards[s])

GetNext(g, s) ==
    IF HasNext(g, s) THEN SearchShards[s][g[s].pos]
    ELSE SearchShards[s][Len(SearchShards[s])]

Confirm(g, s) ==
    [g EXCEPT ![s] = [pos |-> IF HasNext(g, s) THEN g[s].pos + 1 ELSE g[s].pos,
                      bit |-> FALSE]]

Found(g, s) == [g EXCEPT ![s].bit = TRUE]

CheckFound(g, s) == g[s].bit

\* pred.Check on the candidate j
PredCheck(j) == j \in sat

\* numProc of FindNext
NumWorkers == IF NumProc > Len(SearchShards) THEN Len(SearchShards) ELSE NumProc

Workers == 1..NumWorkers

Calls == 1..Len(wpc)

SearchIdle ==
    /\ variant = "ParallelSearch"
    /\ sat = {}
    /\ panics = {}
    /\ Generators = <<>>
    /\ Result = <<>>
    /\ ExhaustedSearch = FALSE
    /\ mpc = "idle"
    /\ wpc = <<>>
    /\ wj = <<>>
    /\ finished = <<>>
    /\ found = <<>>
    /\ wg = <<>>
    /\ joiner = <<>>
    /\ delivered = FALSE
    /\ returned = [j \in Candidates(SearchShards) |-> 0]
    /\ lost = {}

SearchInit ==
    /\ sat \in SUBSET Candidates(SearchShards)
    /\ Generators = [s \in 1..NumProc |-> [pos |-> 1, bit |-> FALSE]]
    /\ Result = <<>>
    /\ ExhaustedSearch = FALSE
    /\ mpc = "idle"
    /\ wpc = <<>>
    /\ wj = <<>>
    /\ finished = <<>>
    /\ found = <<>>
    /\ wg = <<>>
    /\ joiner = <<>>
    /\ delivered = FALSE
    /\ returned = [j \in Candidates(SearchShards) |-> 0]
    /\ lost = {}

\* FindNext up to the select: the workers and the joiner are started
FindNextCall ==
    /\ mpc = "idle"
    /\ ~ExhaustedSearch
    /\ variant = "Search" => Len(wpc) < MaxCalls
    /\ Result' = <<>>
    /\ wg' = Append(wg, NumWorkers)
    /\ finished' = Append(finished, FALSE)
    /\ found' = Append(found, "open")
    /\ wpc' = Append(wpc, [w \in Workers |-> "loop"])
    /\ wj' = Append(wj, [w \in Workers |-> <<>>])
    /\ joiner' = Append(joiner, "wait")
    /\ delivered' = FALSE
    /\ mpc' = "select"
    /\ UNCHANGED <<variant, sat, panics, Generators, ExhaustedSearch, returned, lost>>
    /\ UNCHANGED engineVars
    /\ UNCHANGED parseVars
    /\ UNCHANGED <<predVars, treeVars>>

\* the head of the loop: for gen.HasNext() { if *finished { return }; j := gen.GetNext()
\* (lib: j := gen.Combination, and gen.BalSep short-cuts the check). The read of
\* *finished is not synchronised with the winner's write, so a worker may still
\* read false after the flag was set. A worker that returns runs wg.Done.
WorkerLoop(c, w) ==
    /\ wpc[c][w] = "loop"
    /\ \E seen \in {FALSE, finished[c]} :
         IF ~HasNext(Generators, w) \/ seen
         THEN /\ wpc' = [wpc EXCEPT ![c][w] = "done"]
              /\ wg' = [wg EXCEPT ![c] = @ - 1]
              /\ UNCHANGED wj
         ELSE /\ wj' = [wj EXCEPT ![c][w] = GetNext(Generators, w)]
              /\ wpc' = [wpc EXCEPT ![c][w] =
                           IF variant = "Search" /\ CheckFound(Generators, w)
                           THEN "mark" ELSE "check"]
              /\ UNCHANGED wg
    /\ UNCHANGED <<variant, sat, panics, Generators, Result, ExhaustedSearch, mpc, finished, found,
                   joiner, delivered, returned, lost>>
    /\ UNCHANGED engineVars
    /\ UNCHANGED parseVars
    /\ UNCHANGED <<predVars, treeVars>>

\* wg.Done() skipped for a worker that panics
WgKept(n) == n

\* the deferred wg.Done() of a worker that panics
WgDone(n) == n - 1

\* pred.Check(s.H, &sep, s.BalFactor) on the subset j selects; a panic of the
\* predicate runs the deferred wg.Done and is recovered, the worker returns
WorkerCheck(c, w) ==
    /\ wpc[c][w] = "check"
    /\ IF wj[c][w] \in panics
       THEN /\ wpc' = [wpc EXCEPT ![c][w] = "done"]
            /\ wg' = [wg EXCEPT ![c] = WgDone(@)]
            /\ wj' = [wj EXCEPT ![c][w] = <<>>]
       ELSE /\ wpc' = [wpc EXCEPT ![c][w] =
                         IF PredCheck(wj[c][w]) THEN "mark" ELSE "confirm"]
            /\ UNCHANGED <<wg, wj>>
    /\ UNCHANGED <<variant, sat, panics, Generators, Result, ExhaustedSearch, mpc, finished,
                   found, joiner, delivered, returned, lost>>
    /\ UNCHANGED engineVars
    /\ UNCHANGED parseVars
    /\ UNCHANGED <<predVars, treeVars>>

\* gen.Found() (lib: gen.BalSep = true)
WorkerFound(c, w) ==
    /\ wpc[c][w] = "mark"
    /\ Generators' = Found(Generators, w)
    /\ wpc' = [wpc EXCEPT ![c][w] = "send"]
    /\ UNCHANGED <<variant, sat, panics, Result, ExhaustedSearch, mpc, wj, finished, found, wg,
                   joiner, delivered, returned, lost>>
    /\ UNCHANGED engineVars
    /\ UNCHANGED parseVars
    /\ UNCHANGED <<predVars, treeVars>>

\* gen.Confirm() after a check that failed
WorkerConfirm(c, w) ==
    /\ wpc[c][w] = "confirm"
    /\ Generators' = Confirm(Generators, w)
    /\ wpc' = [wpc EXCEPT ![c][w] = "loop"]
    /\ wj' = [wj EXCEPT ![c][w] = <<>>]
    /\ UNCHANGED <<variant, sat, panics, Result, ExhaustedSearch, mpc, finished, found, wg,
                   joiner, delivered, returned, lost>>
    /\ UNCHANGED engineVars
    /\ UNCHANGED parseVars
    /\ UNCHANGED <<predVars, treeVars>>

\* case s.Result = <-found: the send of one worker of this call is received
ReceiveFound ==
    /\ mpc = "select"
    /\ \E w \in Workers :
         /\ wpc[Len(wpc)][w] = "send"
         /\ Result' = wj[Len(wpc)][w]
         /\ wpc' = [wpc EXCEPT ![Len(wpc)][w] = "won"]
    /\ delivered' = TRUE
    /\ mpc' = "close"
    /\ UNCHANGED <<variant, sat, panics, Generators, ExhaustedSearch, wj, finished, found, wg,
                   joiner, returned, lost>>
    /\ UNCHANGED engineVars
    /\ UNCHANGED parseVars
    /\ UNCHANGED <<predVars, treeVars>>

\* close(found)
CloseFound ==
    /\ mpc = "close"
    /\ found' = [found EXCEPT ![Len(found)] = "closed"]
    /\ mpc' = "wgwait"
    /\ UNCHANGED <<variant, sat, panics, Generators, Result, ExhaustedSearch, wpc, wj, finished, wg,
                   joiner, delivered, returned, lost>>
    /\ UNCHANGED engineVars
    /\ UNCHANGED parseVars
    /\ UNCHANGED <<predVars, treeVars>>

\* a send on the closed channel that returns instead of panicking: the worker
\* goes on to gen.Confirm() before it leaves
WorkerSendConfirms(c, w) ==
    /\ wpc[c][w] = "send"
    /\ found[c] = "closed"
    /\ wpc' = [wpc EXCEPT ![c][w] = "done"]
    /\ wg' = [wg EXCEPT ![c] = @ - 1]
    /\ lost' = lost \cup {wj[c][w]}
    /\ wj' = [wj EXCEPT ![c][w] = <<>>]
    /\ Generators' = Confirm(Generators, w)
    /\ UNCHANGED <<variant, sat, panics, Result, ExhaustedSearch, mpc, finished,
                   found, joiner, delivered, returned>>
    /\ UNCHANGED engineVars
    /\ UNCHANGED parseVars
    /\ UNCHANGED <<predVars, treeVars>>

\* a send on the closed channel panics: wg.Done runs, the panic is recovered
WorkerSendPanics(c, w) ==
    /\ wpc[c][w] = "send"
    /\ found[c] = "closed"
    /\ wpc' = [wpc EXCEPT ![c][w] = "done"]
    /\ wg' = [wg EXCEPT ![c] = WgDone(@)]
    /\ lost' = lost \cup {wj[c][w]}
    /\ wj' = [wj EXCEPT ![c][w] = <<>>]
    /\ UNCHANGED <<variant, sat, panics, Generators, Result, ExhaustedSearch, mpc, finished,
                   found, joiner, delivered, returned>>
    /\ UNCHANGED engineVars
    /\ UNCHANGED parseVars
    /\ UNCHANGED <<predVars, treeVars>>

\* the winner after its send: gen.Confirm()
WorkerConfirmWin(c, w) ==
    /\ wpc[c][w] = "won"
    /\ Generators' = Confirm(Generators, w)
    /\ wpc' = [wpc EXCEPT ![c][w] = "setflag"]
    /\ wj' = [wj EXCEPT ![c][w] = <<>>]
    /\ UNCHANGED <<variant, sat, panics, Result, ExhaustedSearch, mpc, finished, found, wg,
                   joiner, delivered, returned, lost>>
    /\ UNCHANGED engineVars
    /\ UNCHANGED parseVars
    /\ UNCHANGED <<predVars, treeVars>>

\* *finished = true; return (wg.Done)
WorkerSetFinished(c, w) ==
    /\ wpc[c][w] = "setflag"
    /\ finished' = [finished EXCEPT ![c] = TRUE]
    /\ wpc' = [wpc EXCEPT ![c][w] = "done"]
    /\ wg' = [wg EXCEPT ![c] = @ - 1]
    /\ UNCHANGED <<variant, sat, panics, Generators, Result, ExhaustedSearch, mpc, wj, found,
                   joiner, delivered, returned, lost>>
    /\ UNCHANGED engineVars
    /\ UNCHANGED parseVars
    /\ UNCHANGED <<predVars, treeVars>>

\* wg.Wait() of a call's joiner returns; it goes on to send on wait
JoinerWaitDone(c) ==
    /\ joiner[c] = "wait"
    /\ wg[c] = 0
    /\ joiner' = [joiner EXCEPT ![c] = "send"]
    /\ UNCHANGED <<variant, sat, panics, Generators, Result, ExhaustedSearch, mpc, wpc, wj, finished,
                   found, wg, delivered, returned, lost>>
    /\ UNCHANGED engineVars
    /\ UNCHANGED parseVars
    /\ UNCHANGED <<predVars, treeVars>>

\* case <-wait: every worker returned and none delivered; FindNext returns
ReceiveWait ==
    /\ mpc = "select"
    /\ joiner[Len(joiner)] = "send"
    /\ joiner' = [joiner EXCEPT ![Len(joiner)] = "done"]
    /\ ExhaustedSearch' = TRUE
    /\ mpc' = "idle"
    /\ UNCHANGED <<variant, sat, panics, Generators, Result, wpc, wj, finished, found, wg,
                   delivered, returned, lost>>
    /\ UNCHANGED engineVars
    /\ UNCHANGED parseVars
    /\ UNCHANGED <<predVars, treeVars>>

\* no wait for the workers after close(found)
ReturnsAtOnce(v, n) == TRUE

\* what FindNext waits for after close(found): ParallelSearch calls wg.Wait(),
\* lib's Search returns at once
WorkersJoined(v, n) == v = "Search" \/ n = 0

\* FindNext returns with a Result
FindNextReturn ==
    /\ mpc = "wgwait"
    /\ WorkersJoined(variant, wg[Len(wg)])
    /\ mpc' = "idle"
    /\ returned' = [returned EXCEPT ![Result] = @ + 1]
    /\ lost' = IF Result \in lost THEN (lost \ {Result}) \cup {<<>>} ELSE lost
    /\ UNCHANGED <<variant, sat, panics, Generators, Result, ExhaustedSearch, wpc, wj, finished,
                   found, wg, joiner, delivered>>
    /\ UNCHANGED engineVars
    /\ UNCHANGED parseVars
    /\ UNCHANGED <<predVars, treeVars>>

SearchNext ==
    \/ FindNextCall
    \/ \E c \in Calls, w \in Workers : WorkerLoop(c, w)
    \/ \E c \in Calls, w \in Workers : WorkerCheck(c, w)
    \/ \E c \in Calls, w \in Workers : WorkerFound(c, w)
    \/ \E c \in Calls, w \in Workers : WorkerConfirm(c, w)
    \/ ReceiveFound
    \/ CloseFound
    \/ \E c \in Calls, w \in Workers : WorkerSendPanics(c, w)
    \/ \E c \in Calls, w \in Workers : WorkerConfirmWin(c, w)
    \/ \E c \in Calls, w \in Workers : WorkerSetFinished(c, w)
    \/ \E c \in Calls : JoinerWaitDone(c)
    \/ ReceiveWait
    \/ FindNextReturn

(* ------------------------------ GetGraph ------------------------------- *)
\* the names a text uses for edges and vertices
Names == {"a", "b", "c"}

\* sequences over S of length at most n
RECURSIVE SeqsUpTo(_, _)
SeqsUpTo(S, n) ==
    IF n = 0 THEN {<<>>}
    ELSE LET shorter == SeqsUpTo(S, n - 1)
         IN shorter \cup {Append(q, x) : q \in shorter, x \in S}

\* a well-formed item Name(v, ...) of the text
ParseEdges == [Name : Names, Vertices : SeqsUpTo(Names, MaxArity)]

\* an item the grammar does not accept
BadItem == [Name |-> "(", Vertices |-> <<>>]

Texts == SeqsUpTo(ParseEdges \cup {BadItem}, MaxText)

\* the well-formed items before the first item the grammar rejects
RECURSIVE WellFormedPrefix(_)
WellFormedPrefix(t) ==
    IF t = <<>> \/ Head(t) = BadItem THEN <<>>
    ELSE <<Head(t)>> \o WellFormedPrefix(Tail(t))

HasParseError(t) == \E i \in 1..Len(t) : t[i] = BadItem

\* the first loop of GetGraph: pgraph.m[e.Name] = encode; encode++
RECURSIVE EdgeNames(_, _, _)
EdgeNames(edges, m, encode) ==
    IF edges = <<>> THEN [m |-> m, encode |-> encode]
    ELSE EdgeNames(Tail(edges),
                   [n \in DOMAIN m \cup {Head(edges).Name} |->
                       IF n = Head(edges).Name THEN encode ELSE m[n]],
                   encode + 1)

\* the inner loop of GetGraph over the vertices of one edge
RECURSIVE EncodeVertices(_, _, _, _)
EncodeVertices(vs, m, encode, outputEdges) ==
    IF vs = <<>> THEN [m |-> m, encode |-> encode, outputEdges |-> outputEdges]
    ELSE IF Head(vs) \in DOMAIN m
    THEN EncodeVertices(Tail(vs), m, encode, Append(outputEdges, m[Head(vs)]))
    ELSE EncodeVertices(Tail(vs),
                        [n \in DOMAIN m \cup {Head(vs)} |-> IF n = Head(vs) THEN encode ELSE m[n]],
                        encode + 1, Append(outputEdges, encode))

\* the second loop of GetGraph
RECURSIVE EncodeEdges(_, _, _, _)
EncodeEdges(edges, m, encode, out) ==
    IF edges = <<>> THEN out
    ELSE LET r == EncodeVertices(Head(edges).Vertices, m, encode, <<>>)
         IN EncodeEdges(Tail(edges), r.m, r.encode,
                        Append(out, [Name |-> r.m[Head(edges).Name], Vertices |-> r.outputEdges]))

\* the Graph GetGraph builds from pgraph.Edges
GetGraph(edges) ==
    LET first == EdgeNames(edges, [n \in {} |-> 0], 1)
    IN EncodeEdges(edges, first.m, first.encode, <<>>)

ParseIdle ==
    /\ text = <<>>
    /\ pgraph = <<>>
    /\ perr = FALSE
    /\ output = <<>>
    /\ gpc = "idle"

\* main has read the file
ParseInit ==
    /\ text \in Texts
    /\ pgraph = <<>>
    /\ perr = FALSE
    /\ output = <<>>
    /\ gpc = "read"

\* parser.ParseString(s, &pgraph): on an error the parser has stored some of the
\* items that precede it
ParseString ==
    /\ gpc = "read"
    /\ perr' = HasParseError(text)
    /\ \E n \in 0..Len(WellFormedPrefix(text)) :
         /\ ~HasParseError(text) => n = Len(text)
         /\ pgraph' = SubSeq(text, 1, n)
    /\ gpc' = "parsed"
    /\ UNCHANGED <<text, output>>
    /\ UNCHANGED engineVars
    /\ UNCHANGED searchVars
    /\ UNCHANGED <<predVars, treeVars>>

\* the rest of GetGraph: the result of ParseString is not looked at
GetGraphReturn ==
    /\ gpc = "parsed"
    /\ output' = GetGraph(pgraph)
    /\ gpc' = "returned"
    /\ UNCHANGED <<text, pgraph, perr>>
    /\ UNCHANGED engineVars
    /\ UNCHANGED searchVars
    /\ UNCHANGED <<predVars, treeVars>>

\* main goes on to decompose the graph it was given
Decompose ==
    /\ gpc = "returned"
    /\ gpc' = "decomp"
    /\ UNCHANGED <<text, pgraph, perr, output>>
    /\ UNCHANGED engineVars
    /\ UNCHANGED searchVars
    /\ UNCHANGED <<predVars, treeVars>>

ParseNext ==
    \/ ParseString
    \/ GetGraphReturn
    \/ Decompose

(* --------------------------- specifications --------------------------- *)
vars == <<l, cache, frames, top, status, outcome, variant, sat, panics, Generators, Result,
          ExhaustedSearch, mpc, wpc, wj, finished, found, wg, joiner, delivered, returned, lost,
          text, pgraph, perr, output, gpc, pcall, pret, tcall, tret>>

\* no predicate is being evaluated and no Node method is running
PredIdle == pcall = <<>> /\ pret = <<>>

TreeIdle == tcall = <<>> /\ tret = <<>>

\* no FindDecomp call is running
EngineIdle ==
    /\ l = [Graph |-> EmptyGraph, K |-> SearchK, BalFactor |-> 2]
    /\ cache = NewCache(TRUE)
    /\ frames = <<>>
    /\ top = 0
    /\ status = "run"
    /\ outcome = [k \in 1..MaxK |-> "none"]

\* FindDecomp, for every width from K up to MaxK
Init == FindDecompInit /\ SearchIdle /\ ParseIdle /\ PredIdle /\ TreeIdle

Next == EngineNext

Spec == Init /\ [][Next]_vars

\* FindDecomp with the negative cache, then the same call without it
CacheNext ==
    \/ \E f \in 1..Len(frames) : Start(f)
    \/ \E f \in 1..Len(frames) : ChildNext(f)
    \/ \E f \in 1..Len(frames) : RootReturn(f)
    \/ \E f \in 1..Len(frames) : ParentNext(f)
    \/ \E f \in 1..Len(frames) : Join(f)
    \/ \E f \in 1..Len(frames) : Stitch(f)
    \/ FindDecompUncached

SpecCache == Init /\ [][CacheNext]_vars

\* main from the text it read up to the call of the decomposition
InitParse == ParseInit /\ EngineIdle /\ SearchIdle /\ PredIdle /\ TreeIdle

SpecParse == InitParse /\ [][ParseNext]_vars

\* the calls of FindNext on one ParallelSearch until it is exhausted
InitSearch ==
    /\ SearchInit /\ panics = {} /\ variant = "ParallelSearch"
    /\ EngineIdle /\ ParseIdle /\ PredIdle /\ TreeIdle

SpecSearch == InitSearch /\ [][SearchNext]_vars

\* up to MaxCalls calls of FindNext on one Search of lib
InitLibSearch ==
    /\ SearchInit /\ panics = {} /\ variant = "Search"
    /\ EngineIdle /\ ParseIdle /\ PredIdle /\ TreeIdle

SpecLibSearch == InitLibSearch /\ [][SearchNext]_vars

\* FindNext of ParallelSearch with a predicate that holds on at most MaxSat
\* candidates and panics on another one
InitPanic ==
    /\ SearchInit
    /\ Cardinality(sat) <= MaxSat
    /\ \E j \in Candidates(SearchShards) \ sat : panics = {j}
    /\ variant = "ParallelSearch"
    /\ EngineIdle
    /\ ParseIdle
    /\ PredIdle
    /\ TreeIdle

\* every goroutine that can take a step is scheduled in the end
SearchFairness ==
    /\ WF_vars(FindNextCall)
    /\ WF_vars(\E c \in Calls, w \in Workers : WorkerLoop(c, w))
    /\ WF_vars(\E c \in Calls, w \in Workers : WorkerCheck(c, w))
    /\ WF_vars(\E c \in Calls, w \in Workers : WorkerFound(c, w))
    /\ WF_vars(\E c \in Calls, w \in Workers : WorkerConfirm(c, w))
    /\ WF_vars(ReceiveFound)
    /\ WF_vars(CloseFound)
    /\ WF_vars(\E c \in Calls, w \in Workers : WorkerSendPanics(c, w))
    /\ WF_vars(\E c \in Calls, w \in Workers : WorkerConfirmWin(c, w))
    /\ WF_vars(\E c \in Calls, w \in Workers : WorkerSetFinished(c, w))
    /\ WF_vars(\E c \in Calls : JoinerWaitDone(c))
    /\ WF_vars(ReceiveWait)
    /\ WF_vars(FindNextReturn)

SpecPanic == InitPanic /\ [][SearchNext]_vars /\ SearchFairness

\* the calls of FindNext on one ParallelSearch with every goroutine scheduled
SpecSearchLive == InitSearch /\ [][SearchNext]_vars /\ SearchFairness

(* ------------------------ calls of the predicates ---------------------- *)
\* the edges of the cycle over 1..PredVerts, named by their first vertex
PredPool == {NamedEdge(i, {i, (i % PredVerts) + 1}) : i \in 1..PredVerts}

\* special edges: one vertex, or the vertices of an edge of the cycle
PredSpecials ==
    {SpecialOf({v}) : v \in 1..PredVerts} \cup {SpecialOf(e.verts) : e \in PredPool}

PredGraphs ==
    {[Edges |-> E, Special |-> S] :
        E \in SUBSET PredPool, S \in {{}} \cup {{sp} : sp \in PredSpecials}}

PredSeps == {sep \in SUBSET PredPool : Cardinality(sep) \in {1, 2}}

PredConns == {{}} \cup {{v} : v \in 1..PredVerts}

PredChildren == {c \in SUBSET (1..PredVerts) : Cardinality(c) <= 2}

BalFactors == {2, 3}

\* a predicate value and the arguments of its Check
PredInit ==
    /\ pret = <<>>
    /\ \E H \in PredGraphs, sep \in PredSeps, b \in BalFactors :
         \/ pcall = [pred |-> "BalancedCheck", p |-> [Conn |-> {}, Child |-> {}],
                     H |-> H, sep |-> sep, balFactor |-> b]
         \/ \E Conn \in PredConns, Child \in PredChildren :
              pcall = [pred |-> "ParentCheck", p |-> [Conn |-> Conn, Child |-> Child],
                       H |-> H, sep |-> sep, balFactor |-> b]

BalancedCheckCheck ==
    /\ pret = <<>>
    /\ pcall.pred = "BalancedCheck"
    /\ pret' = <<BalancedCheck(pcall.H, pcall.sep, pcall.balFactor)>>
    /\ UNCHANGED <<pcall, treeVars>>
    /\ UNCHANGED <<engineVars, searchVars, parseVars>>

ParentCheckCheck ==
    /\ pret = <<>>
    /\ pcall.pred = "ParentCheck"
    /\ pret' = <<ParentCheck(pcall.p, pcall.H, pcall.sep, pcall.balFactor)>>
    /\ UNCHANGED <<pcall, treeVars>>
    /\ UNCHANGED <<engineVars, searchVars, parseVars>>

PredNext ==
    \/ BalancedCheckCheck
    \/ ParentCheckCheck

\* one call of a predicate's Check
InitPred == PredInit /\ EngineIdle /\ SearchIdle /\ ParseIdle /\ TreeIdle

SpecPred == InitPred /\ [][PredNext]_vars

(* ------------------------ calls of Node methods ------------------------ *)
\* the labels of the nodes: one cover, the edge {1, 2}, and the bags inside it
TreeEdge == NamedEdge(1, {1, 2})

TreeLabels == {[Bag |-> B, Cover |-> {TreeEdge}] : B \in {{1}, {2}, {1, 2}}}

\* the trees with k nodes, and the lists of trees with k nodes in all
RECURSIVE TreesOf(_), ForestsOf(_)
TreesOf(k) ==
    IF k = 0 THEN {}
    ELSE {MkNode(lab.Bag, lab.Cover, f) : lab \in TreeLabels, f \in ForestsOf(k - 1)}

ForestsOf(k) ==
    IF k = 0 THEN {<<>>}
    ELSE UNION {{<<t>> \o f : t \in TreesOf(j), f \in ForestsOf(k - j)} : j \in 1..k}

Trees == UNION {TreesOf(k) : k \in 1..TreeSize}

\* n and every node below it
RECURSIVE Subtrees(_)
Subtrees(n) == {n} \cup UNION {Subtrees(n.Children[i]) : i \in 1..Len(n.Children)}

\* a receiver and the arguments of one of its methods
TreeInit ==
    /\ tret = <<>>
    /\ \E n \in Trees :
         \/ \E child \in Subtrees(n) \cup TreesOf(1) :
              tcall = [method |-> "Reroot", n |-> n, child |-> child,
                       vertices |-> {}, subtree |-> ZeroNode]
         \/ tcall = [method |-> "noSCViolation", n |-> n, child |-> ZeroNode,
                     vertices |-> {}, subtree |-> ZeroNode]
         \/ \E vertices \in SUBSET TreeEdge.verts, subtree \in TreesOf(1) :
              tcall = [method |-> "CheckLeaves", n |-> n, child |-> ZeroNode,
                       vertices |-> vertices, subtree |-> subtree]

RerootCall ==
    /\ tret = <<>>
    /\ tcall.method = "Reroot"
    /\ tret' = <<Reroot(tcall.n, tcall.child)>>
    /\ UNCHANGED <<tcall, predVars>>
    /\ UNCHANGED <<engineVars, searchVars, parseVars>>

noSCViolationCall ==
    /\ tret = <<>>
    /\ tcall.method = "noSCViolation"
    /\ tret' = <<noSCViolation(tcall.n)>>
    /\ UNCHANGED <<tcall, predVars>>
    /\ UNCHANGED <<engineVars, searchVars, parseVars>>

CheckLeavesCall ==
    /\ tret = <<>>
    /\ tcall.method = "CheckLeaves"
    /\ tret' = <<CheckLeaves(tcall.n, tcall.vertices, tcall.subtree)>>
    /\ UNCHANGED <<tcall, predVars>>
    /\ UNCHANGED <<engineVars, searchVars, parseVars>>

TreeNext ==
    \/ RerootCall
    \/ noSCViolationCall
    \/ CheckLeavesCall

\* one call of a Node method
InitTree == TreeInit /\ EngineIdle /\ SearchIdle /\ ParseIdle /\ PredIdle

SpecTree == InitTree /\ [][TreeNext]_vars

(* ----------------------- correctness of a result ----------------------- *)
\* the nodes of a tree, each with the path of child indices leading to it
RECURSIVE TreeNodes(_, _)
TreeNodes(n, path) ==
    {[path |-> path, Bag |-> n.Bag, Cover |-> n.Cover]}
    \cup UNION {TreeNodes(n.Children[i], Append(path, i)) : i \in 1..Len(n.Children)}

ParentPath(p) == SubSeq(p, 1, Len(p) - 1)

\* the nodes whose bag holds v form a connected subtree: at most one of them has
\* no parent holding v
ConnectedFor(ns, v) ==
    LET with == {n.path : n \in {x \in ns : v \in x.Bag}}
    IN Cardinality({p \in with : p = <<>> \/ ParentPath(p) \notin with}) <= 1

CheckCorrect(d, G, k) ==
    LET ns == TreeNodes(d.Root, <<>>)
    IN /\ GraphVertices(G) \subseteq UNION {n.Bag : n \in ns}
       /\ \A e \in G.Edges : \E n \in ns : e.verts \subseteq n.Bag
       /\ \A v \in GraphVertices(G) : ConnectedFor(ns, v)
       /\ \A n \in ns : n.Bag \subseteq Vertices(n.Cover)
       /\ \A n \in ns : Cardinality(n.Cover) <= k

FindDecompReturned == status = "run" /\ frames[top].pc = "ret"

FindDecompSucceeded == FindDecompReturned /\ ~IsFailure(frames[top].ret)

RECURSIVE Pow(_, _)
Pow(b, d) == IF d = 0 THEN 1 ELSE b * Pow(b, d - 1)

FindNextReturned == mpc = "idle" /\ wpc # <<>>

\* C2: every call of FindNext returns in exactly one of two states: Result is a
\* non-empty tuple of one generator that satisfies the predicate, delivered by
\* a worker of this call, and ExhaustedSearch is not set; or ExhaustedSearch is
\* set, Result is the empty tuple and no worker delivered in this call. A call
\* that has not returned can always take a step.
C2_FindNextOutcome ==
    /\ FindNextReturned =>
         \/ /\ Result # <<>>
            /\ Result \in Candidates(SearchShards)
            /\ PredCheck(Result)
            /\ delivered
            /\ ~ExhaustedSearch
         \/ /\ ExhaustedSearch
            /\ Result = <<>>
            /\ ~delivered
    /\ mpc # "idle" => ENABLED SearchNext

\* C3: ParallelSearch returns no candidate twice, returns only candidates that
\* satisfy the predicate, and once ExhaustedSearch is set it has returned every
\* candidate that satisfies the predicate.
C3_ExactlyOnce ==
    (variant = "ParallelSearch" /\ mpc = "idle") =>
        /\ \A j \in DOMAIN returned : returned[j] <= 1
        /\ \A j \in DOMAIN returned : returned[j] > 0 => j \in sat
        /\ ExhaustedSearch => {j \in DOMAIN returned : returned[j] > 0} = sat

\* the search is exhausted after three candidates were returned, one of them
\* after its send in an earlier call had hit the closed channel
C3_Witness ==
    /\ variant = "ParallelSearch"
    /\ ExhaustedSearch
    /\ mpc = "idle"
    /\ Cardinality({j \in DOMAIN returned : returned[j] > 0}) >= 3
    /\ <<>> \in lost


\* the findDecomp calls of the running FindDecomp that are past the base-case test
PastBaseCase ==
    {f \in top..Len(frames) :
        /\ frames[f].kind # "upnow"
        /\ frames[f].pc # "start"
        /\ Subset(frames[f].Conn, GraphVertices(frames[f].H))}

\* what the base cases give in their listed order, "none" when none applies
ListedBaseCase(H, lenAE, K) ==
    IF Cardinality(H.Edges) <= K /\ Cardinality(H.Special) = 0
    THEN [case |-> 1, Root |-> MkNode(GraphVertices(H), H.Edges, <<>>)]
    ELSE IF Cardinality(H.Edges) = 0 /\ Cardinality(H.Special) = 1
    THEN [case |-> 2,
          Root |-> LET sp0 == CHOOSE sp \in H.Special : TRUE
                   IN MkNode(Vertices(sp0), sp0, <<>>)]
    ELSE IF Cardinality(H.Edges) = 0 /\ Cardinality(H.Special) > 1
    THEN [case |-> 3, Root |-> ZeroNode]
    ELSE IF lenAE = 0
    THEN [case |-> 4, Root |-> ZeroNode]
    ELSE [case |-> 0, Root |-> ZeroNode]

\* C4: the base cases are applied in the listed order: a call with at most K
\* edges and no special edge returns the single node (V(H), E(H)) and not the
\* failure value, whatever allowedFull is; otherwise a call with no edge and one
\* special edge returns the single node of that special edge; otherwise a call
\* with no edge and several special edges fails; otherwise a call with an empty
\* allowedFull fails.
C4_BaseCaseOrder ==
    \A f \in PastBaseCase :
        LET fr == frames[f]
            bc == ListedBaseCase(fr.H, Cardinality(fr.allowedFull), l.K)
        IN /\ bc.case \in {1, 2} =>
                /\ fr.pc \in {"ret", "done"}
                /\ ~IsFailure(fr.ret)
                /\ fr.ret = MkDecomp(fr.H, bc.Root)
           /\ bc.case \in {3, 4} =>
                /\ fr.pc \in {"ret", "done"}
                /\ IsFailure(fr.ret)

\* C5: FindDecomp on the graph without edges returns a single node with empty
\* bag and empty cover, and this result is not the failure value.
C5_EmptyGraph ==
    (FindDecompReturned /\ l.Graph = EmptyGraph) =>
        /\ ~IsFailure(frames[top].ret)
        /\ frames[top].ret.Root = MkNode({}, NoEdges, <<>>)

\* C6: on the triangle FindDecomp returns the failure value for K = 1, and for
\* K = 2 a single node with bag {1, 2, 3} covered by two of the three edges.
C6_Triangle ==
    (FindDecompReturned /\ l.Graph = Triangle) =>
        LET d == frames[top].ret
        IN /\ l.K = 1 => IsFailure(d)
           /\ l.K = 2 =>
                /\ ~IsFailure(d)
                /\ d.Root.Children = <<>>
                /\ d.Root.Bag = {1, 2, 3}
                /\ d.Root.Cover \subseteq Triangle.Edges
                /\ Cardinality(d.Root.Cover) = 2

\* both widths have been tried on the triangle
C6_Witness ==
    /\ FindDecompReturned
    /\ l.Graph = Triangle
    /\ l.K = 2
    /\ outcome[1] = "fail"

\* the tree nodes n and m are joined by a tree edge
Adjacent(n, m) ==
    \/ Len(n.path) > 0 /\ ParentPath(n.path) = m.path
    \/ Len(m.path) > 0 /\ ParentPath(m.path) = n.path

\* C7: on the chain of three edges with K = 1 FindDecomp succeeds with a tree of
\* exactly three nodes, with bags {1,2}, {2,3}, {3,4}, whose {2,3} node is joined
\* to both other nodes.
C7_Chain ==
    (FindDecompReturned /\ l.Graph = PathGraph(3) /\ l.K = 1) =>
        LET d == frames[top].ret
            ns == TreeNodes(d.Root, <<>>)
        IN /\ ~IsFailure(d)
           /\ Cardinality(ns) = 3
           /\ {n.Bag : n \in ns} = {{1, 2}, {2, 3}, {3, 4}}
           /\ \A m \in ns : m.Bag = {2, 3} =>
                \A n \in ns : n # m => Adjacent(n, m)

C7_Witness ==
    /\ FindDecompSucceeded
    /\ l.Graph = PathGraph(3)
    /\ l.K = 1
    /\ Len(frames[top].ret.Root.Children) = 2

\* C8: once FindDecomp has succeeded at a width, it ends at every larger width
\* with a decomposition: it neither returns the failure value nor panics.
C8_Monotone ==
    (\E k \in 1..MaxK : k < l.K /\ outcome[k] = "ok") =>
        /\ status # "panic"
        /\ FindDecompReturned => ~IsFailure(frames[top].ret)

\* a graph that needed the recursive step at the smaller width succeeds at both
C8_Witness ==
    /\ FindDecompSucceeded
    /\ l.K = 2
    /\ outcome[1] = "ok"
    /\ Cardinality(l.Graph.Edges) > 2

\* the least d with (b/(b-1))^d >= n, for n >= 1
RECURSIVE CeilLog(_, _, _)
CeilLog(b, n, d) ==
    IF Pow(b, d) >= n * Pow(b - 1, d) THEN d ELSE CeilLog(b, n, d + 1)

ForkedBy(f) ==
    {g \in 1..Len(frames) : frames[g].parent = f /\ frames[g].kind \in {"child", "up", "upnow"}}

\* C10: when a findDecomp call has returned, every task it forked has finished
\* and has had its result received.
C10_ForkJoin ==
    \A f \in 1..Len(frames) :
        frames[f].kind # "upnow" /\ frames[f].pc \in {"ret", "done"} =>
            \A g \in ForkedBy(f) : frames[g].pc = "done"


AtStitch ==
    {f \in 1..Len(frames) :
        /\ frames[f].pc = "join"
        /\ frames[f].nrecv = Len(frames[f].comps) + 1
        /\ frames[f].hasTemp}

\* C12: whenever findDecomp calls attachingSubtrees(decompUp.Root, rootChild,
\* specialChild), decompUp.Root holds exactly one leaf whose Cover is the special
\* edge specialChild, so the call does not end in the fatal error.
C12_StitchPrecondition ==
    status = "run" =>
        \A f \in AtStitch :
            /\ MarkerLeaves(frames[f].decompUp.Root, frames[f].specialChild) = 1
            /\ ~attachingSubtrees(frames[f].decompUp.Root,
                                  MkNode(frames[f].childX, frames[f].childL, frames[f].subtrees),
                                  frames[f].specialChild).panic


\* C13: when the text cannot be parsed, GetGraph does not return a graph and
\* main does not go on to the decomposition.
C13_ParseErrorFatal == perr => gpc \notin {"returned", "decomp"}


\* C14: a worker does not evaluate the predicate on a candidate whose generator
\* holds the cache bit, and a worker marks and sends only a candidate on which
\* the predicate holds.
C14_CacheBit ==
    \A c \in Calls, w \in Workers :
        /\ wpc[c][w] = "check" => ~CheckFound(Generators, w)
        /\ wpc[c][w] \in {"mark", "send"} => PredCheck(wj[c][w])


\* the workers of call c that hold or held the accepted send
Winners(c) == {w \in Workers : wpc[c][w] \in {"won", "setflag"}}

\* C15: within one FindNext call at most one worker's candidate becomes Result;
\* a worker that leaves at the top of its loop neither sends nor advances its
\* generator; a worker whose send is not accepted leaves Result and its
\* generator as they are.
C15_LosingWorkers ==
    /\ [](\A c \in Calls : Cardinality(Winners(c)) <= 1)
    /\ [][/\ (Result' # Result /\ Result' # <<>>) => (Result = <<>> /\ ~delivered)
          /\ \A c \in Calls, w \in Workers :
                /\ (wpc[c][w] = "loop" /\ wpc'[c][w] = "done")
                      => (Result' = Result /\ Generators' = Generators /\ wj' = wj)
                /\ (wpc[c][w] = "send" /\ wpc'[c][w] = "done")
                      => (Result' = Result /\ Generators' = Generators)]_vars

\* a call returned a Result, its flag is set, all its workers have left, and the
\* send of a loser whose check had succeeded was not accepted
C15_Witness ==
    /\ mpc = "idle"
    /\ Result # <<>>
    /\ (lost \ {<<>>, Result}) # {}
    /\ \E c \in Calls : finished[c] /\ \A w \in Workers : wpc[c][w] = "done"


\* the workers of call c that have not returned
Running(c) == {w \in Workers : wpc[c][w] # "done"}

\* C16: a panic of the predicate or of a send on the closed channel ends only
\* the worker it happens in: the WaitGroup counts exactly the workers still
\* running, a search that ends exhausted has had every other worker go through
\* its whole shard, and every FindNext that was called returns, with a Result
\* or with ExhaustedSearch set.
C16_PanicContainment ==
    /\ [](\A c \in Calls : wg[c] = Cardinality(Running(c)))
    /\ [](ExhaustedSearch =>
            \A s \in Workers :
                ~HasNext(Generators, s) \/ GetNext(Generators, s) \in panics)
    /\ [](FindNextReturned => (Result # <<>> \/ ExhaustedSearch))
    /\ (mpc # "idle") ~> FindNextReturned

\* FindNext returned exhausted: the predicate panicked in one worker, whose
\* shard still holds that candidate, and another worker went through its shard
C16_Witness ==
    /\ FindNextReturned
    /\ ExhaustedSearch
    /\ \E s \in Workers, t \in Workers :
          /\ s # t
          /\ HasNext(Generators, s) /\ GetNext(Generators, s) \in panics
          /\ Len(SearchShards[t]) > 0 /\ ~HasNext(Generators, t)


\* the tasks of the latest PARENT round of activation f
TasksOf(f) ==
    {c \in 1..Len(frames) : frames[c].parent = f /\ frames[c].fork = frames[f].forks
                              /\ frames[c].kind \in {"child", "up", "upnow"}}

\* the results the join loop of activation f still waits for
Awaited(f) == Len(frames[f].comps) + 1 - frames[f].nrecv

UseH ==
    [Edges |-> {NamedEdge(1, {1, 2}), NamedEdge(2, {3, 4}), NamedEdge(3, {2, 3})},
     Special |-> {}]

UseChild == {NamedEdge(3, {2, 3})}

UsePred == [Conn |-> {1}, Child |-> Vertices(UseChild)]

UseAllowedParent ==
    FilterVertices(FilterVertices(UseH.Edges, GraphVertices(UseH)),
                   UsePred.Conn \cup Vertices(UseChild))

\* parentλ := GetSubset(allowedParent, parentalSearch.Result)
UseParent(j) == GetSubset(UseAllowedParent, TupleSet(j))

\* the candidates that select edges of allowedParent, and those of them on
\* which ParentCheck holds
UseCandidates ==
    {j \in Candidates(SearchShards) : TupleSet(j) \subseteq 1..Cardinality(UseAllowedParent)}

UsePass == {j \in UseCandidates : ParentCheck(UsePred, UseH, UseParent(j), 2)}

\* foundLow of the PARENT loop for the separator rebuilt from Result
FoundLow(j) ==
    LowIndex(GetComponents(UseH, UseParent(j)).comps, BalancednessLimit(UseH, 2)) # 0

Activations == {f \in 1..Len(frames) : frames[f].kind # "upnow"}

RoundLow(f) ==
    LET comps_p == GetComponents(frames[f].H, frames[f].parentL).comps
    IN comps_p[LowIndex(comps_p, BalancednessLimit(frames[f].H, l.BalFactor))]

\* C21: every child and parent separator consists of edges of the call's
\* allowedFull that touch V(H); a recursive call gets the caller's allowed
\* set for a component of the child and the caller's set minus the edges of
\* the low component for the upper graph; so every separator lies inside the
\* allowed edges of the root call.
C21_AllowedEdges ==
    \A f \in Activations :
        LET fr == frames[f]
            touching == FilterVertices(fr.allowedFull, GraphVertices(fr.H))
        IN /\ Subset(fr.childL, touching)
           /\ Subset(fr.parentL, touching)
           /\ Subset(fr.childL \cup fr.parentL, frames[top].allowedFull)
           /\ fr.parent # 0 =>
                 /\ Subset(fr.allowedFull, frames[fr.parent].allowedFull)
                 /\ fr.kind \in {"seq", "child"} =>
                       fr.allowedFull = frames[fr.parent].allowedFull
                 /\ (/\ fr.kind = "up"
                     /\ frames[fr.parent].pc = "join"
                     /\ fr.fork = frames[fr.parent].forks) =>
                       fr.allowedFull = Diff(frames[fr.parent].allowedFull,
                                             RoundLow(fr.parent).Edges)

\* a PARENT round has chosen a parent separator and started the call on the
\* upper graph with a reduced allowed set, and that call has chosen its own
\* child separator
C21_Witness ==
    /\ status = "run"
    /\ \E f \in Activations :
          /\ frames[f].kind = "up"
          /\ frames[f].allowedFull # frames[frames[f].parent].allowedFull
          /\ frames[f].childL # {}
          /\ frames[frames[f].parent].pc = "join"
          /\ frames[frames[f].parent].parentL # {}


\* the components of the graph of the Check call under way
PredComps == Components(pcall.H, pcall.sep)

\* component L is larger than floor(|H|*(b-1)/b), the connection vertices in
\* it are covered by sep, and what it shares with sep lies in Child
GoodLow(L) ==
    /\ GraphLen(L) > (GraphLen(pcall.H) * (pcall.balFactor - 1)) \div pcall.balFactor
    /\ (pcall.p.Conn \cap GraphVertices(L)) \subseteq Vertices(pcall.sep)
    /\ (GraphVertices(L) \cap Vertices(pcall.sep)) \subseteq (pcall.p.Child \cap GraphVertices(L))

\* C22: ParentCheck is exact: for a balance factor of at least 2, Check
\* returns true if and only if some component of H minus sep is larger than
\* the limit, has its Conn vertices inside V(sep) and shares with V(sep) only
\* vertices of Child.
C22_ParentCheckExact ==
    (pret # <<>> /\ pcall.pred = "ParentCheck") =>
        (pret[1] <=> \E i \in 1..Len(PredComps) : GoodLow(PredComps[i]))

\* Check returned true where sep splits H into several components and a
\* connection vertex lies in the low one
C22_Witness ==
    /\ pret = <<TRUE>>
    /\ pcall.pred = "ParentCheck"
    /\ Len(PredComps) >= 2
    /\ \E i \in 1..Len(PredComps) :
          GoodLow(PredComps[i]) /\ pcall.p.Conn \cap GraphVertices(PredComps[i]) # {}


\* no component of H minus sep is larger than floor(|H|*(b-1)/b)
AllWithinLimit ==
    \A i \in 1..Len(PredComps) :
        GraphLen(PredComps[i]) <= (GraphLen(pcall.H) * (pcall.balFactor - 1)) \div pcall.balFactor

\* some special edge of H has exactly the vertices of sep
SepIsSpecial == \E sp \in pcall.H.Special : Vertices(sp) = Vertices(pcall.sep)

\* C23: BalancedCheck is exact: Check returns true if and only if every
\* component of H minus sep has at most floor(|H|*(b-1)/b) edges and special
\* edges and no special edge of H has the vertex set of sep; so an accepted
\* separator never has the vertex set of a special edge.
C23_BalancedCheckExact ==
    (pret # <<>> /\ pcall.pred = "BalancedCheck") =>
        /\ pret[1] <=> (AllWithinLimit /\ ~SepIsSpecial)
        /\ pret[1] => ~SepIsSpecial

\* Check returned false for a separator that leaves only small components of
\* a graph with edges, because a special edge has its vertex set
C23_Witness ==
    /\ pret = <<FALSE>>
    /\ pcall.pred = "BalancedCheck"
    /\ AllWithinLimit
    /\ SepIsSpecial
    /\ Len(PredComps) >= 2


\* the goroutines FindNext calls have started and that have not returned: the
\* workers <<call, worker>>, and the joiner of a call as <<call, 0>>
LiveGoroutines ==
    {<<c, 0>> : c \in {x \in Calls : joiner[x] # "done"}}
    \cup {g \in Calls \X Workers : wpc[g[1]][g[2]] # "done"}

\* C24: no goroutine of FindNext is leaked: every worker and every joiner
\* goroutine a FindNext call started terminates in the end, whether the call
\* ends exhausted or with a Result.
C24_NoLeakedGoroutine == <>[](LiveGoroutines = {})


\* worker w of call c will still read or advance its generator: it is at the
\* head of its loop, at the check, or before one of its gen.Confirm or
\* gen.Found calls
TouchesGenerator(c, w) == wpc[c][w] \in {"loop", "check", "mark", "confirm", "won"}

\* C25: no cross-call generator race: once FindNext has returned with a
\* Result, and so whenever a later call has started its workers, no worker of
\* the earlier call still reads or advances a generator.
C25_NoCrossCallRace ==
    \A c \in Calls :
        (c < Len(wpc) \/ (mpc = "idle" /\ Result # <<>>)) =>
            \A w \in Workers : ~TouchesGenerator(c, w)


\* the number of nodes of n that carry the label lab
RECURSIVE LabelCount(_, _)
LabelCount(n, lab) ==
    LET below[i \in 0..Len(n.Children)] ==
            IF i = 0 THEN 0 ELSE below[i - 1] + LabelCount(n.Children[i], lab)
    IN (IF n.Bag = lab.Bag /\ n.Cover = lab.Cover THEN 1 ELSE 0) + below[Len(n.Children)]

\* the number of tree edges of n that join a node labelled a and one labelled b
RECURSIVE AdjacencyCount(_, _, _)
AdjacencyCount(n, a, b) ==
    LET lab(o) == [Bag |-> o.Bag, Cover |-> o.Cover]
        below[i \in 0..Len(n.Children)] ==
            IF i = 0 THEN 0
            ELSE below[i - 1] + AdjacencyCount(n.Children[i], a, b)
                   + (IF {lab(n), lab(n.Children[i])} = {a, b} THEN 1 ELSE 0)
    IN below[Len(n.Children)]

\* C26: Reroot yields an isomorphic tree: for a node child contained in n the
\* result has child's Bag and Cover at the root, the same multiset of node
\* labels as n and the same undirected adjacency between nodes; Reroot at the
\* root returns the tree unchanged, and a node not contained in n panics.
C26_RerootIsomorphic ==
    (tret # <<>> /\ tcall.method = "Reroot") =>
        LET n == tcall.n
            child == tcall.child
            r == tret[1]
        IN IF child \in Subtrees(n)
           THEN /\ ~r.panic
                /\ r.node.Bag = child.Bag
                /\ r.node.Cover = child.Cover
                /\ \A lab \in TreeLabels : LabelCount(r.node, lab) = LabelCount(n, lab)
                /\ \A a, b \in TreeLabels :
                      AdjacencyCount(r.node, a, b) = AdjacencyCount(n, a, b)
                /\ child = n => r.node = n
           ELSE r.panic

\* C27: noSCViolation tests the special condition on the entire subtree: it
\* returns true if and only if every node of the subtree rooted at n, at
\* every depth, satisfies specialCondition.
C27_WholeSubtree ==
    (tret # <<>> /\ tcall.method = "noSCViolation") =>
        (tret[1] <=> \A o \in Subtrees(tcall.n) : specialCondition(o))

\* the paths (lists of child positions) from n to its leaves, in preorder
RECURSIVE LeafPaths(_)
LeafPaths(n) ==
    IF Len(n.Children) = 0 THEN <<<<>>>>
    ELSE LET under(i) == LET lp == LeafPaths(n.Children[i])
                         IN [j \in 1..Len(lp) |-> <<i>> \o lp[j]]
             upto[i \in 0..Len(n.Children)] ==
                 IF i = 0 THEN <<>> ELSE upto[i - 1] \o under(i)
         IN upto[Len(n.Children)]

\* the node of n at the end of path
RECURSIVE NodeAt(_, _)
NodeAt(n, path) ==
    IF path = <<>> THEN n ELSE NodeAt(n.Children[Head(path)], Tail(path))

\* n with the children of the node at the end of path replaced by subtree alone
RECURSIVE AttachAt(_, _, _)
AttachAt(n, path, subtree) ==
    IF path = <<>> THEN [n EXCEPT !.Children = <<subtree>>]
    ELSE [n EXCEPT !.Children[Head(path)] = AttachAt(@, Tail(path), subtree)]

\* the positions, in the preorder list of leaves, of the leaves of the
\* receiver whose Bag contains all of vertices
FittingLeaves ==
    LET lp == LeafPaths(tcall.n)
    IN {j \in 1..Len(lp) : tcall.vertices \subseteq NodeAt(tcall.n, lp[j]).Bag}

FirstFitting == CHOOSE j \in FittingLeaves : \A k \in FittingLeaves : j <= k

\* C28: CheckLeaves attaches at exactly one place: the first leaf in preorder
\* whose Bag contains all of vertices gets subtree as its only child, no
\* other node changes and true is returned; if no leaf's Bag contains
\* vertices, false is returned and the whole tree is unchanged.
C28_CheckLeavesOnePlace ==
    (tret # <<>> /\ tcall.method = "CheckLeaves") =>
        IF FittingLeaves # {}
        THEN /\ tret[1].ok
             /\ tret[1].n = AttachAt(tcall.n, LeafPaths(tcall.n)[FirstFitting], tcall.subtree)
             /\ tret[1].result = tret[1].n
        ELSE /\ ~tret[1].ok
             /\ tret[1].n = tcall.n

\* a call that passes a leaf whose bag does not fit and attaches below a
\* later leaf two levels down
C28_Witness ==
    /\ tret # <<>>
    /\ tcall.method = "CheckLeaves"
    /\ tret[1].ok
    /\ FittingLeaves # {}
    /\ FirstFitting > 1
    /\ Len(LeafPaths(tcall.n)[FirstFitting]) >= 2
    /\ tret[1].n # tcall.n

=============================================================================
